---- MODULE Spec2Model ----
(***************************************************************************)
(* A model of cmd/mygit/main.go: a content-addressed object database with  *)
(* the commands init, cat-file, hash-object, ls-tree, write-tree and       *)
(* commit-tree.  Byte strings are sequences of numbers 0..255; the file    *)
(* system is the working files (fixed during a run), the set of .git       *)
(* directories, their HEAD files and the object files under                *)
(* <dir>/.git/objects/<2 hex>/<38 hex>.                                     *)
(***************************************************************************)
EXTENDS Integers, Sequences, FiniteSets, Bags, TLC

\* ------------------------------------------------------------------ bytes

\* The bytes the program writes as literals.
NUL == 0
LF == 10
SP == 32

\* Width of a raw SHA-1 value ([20]byte).
DigestLen == 20

Min(a, b) == IF a < b THEN a ELSE b

\* F applied to the value of v: v is evaluated once and F receives its value,
\* as a local variable of the program receives the value assigned to it.
Let(v, F(_)) == CHOOSE r \in {F(x) : x \in {v}} : TRUE

RECURSIVE Flatten(_)
\* The concatenation of a sequence of byte strings (bytes.Buffer writes).
Flatten(ss) == IF ss = <<>> THEN <<>> ELSE Head(ss) \o Flatten(Tail(ss))

\* s[from:] of Go, with from counted from 0.
Drop(s, from) == SubSeq(s, from + 1, Len(s))

\* s[:to] of Go.
Take(s, to) == SubSeq(s, 1, to)

\* bytes.IndexByte / strings.IndexByte: the 0-based index of the first b, or -1.
IndexByte(s, b) ==
    LET at == {i \in 1..Len(s) : s[i] = b}
    IN  IF at = {} THEN -1 ELSE (CHOOSE i \in at : \A j \in at : i <= j) - 1

RECURSIVE Dec(_)
\* fmt's %d of a natural number: its decimal digits in ASCII.
Dec(n) == IF n < 10 THEN <<48 + n>> ELSE Dec(n \div 10) \o <<48 + (n % 10)>>

RECURSIVE Oct(_)
\* fmt's %o of a natural number.
Oct(n) == IF n < 8 THEN <<48 + n>> ELSE Oct(n \div 8) \o <<48 + (n % 8)>>

HexDigit(n) == IF n < 10 THEN 48 + n ELSE 87 + n

\* fmt's %x of a byte string: two lowercase hex digits per byte.
Hex(bs) ==
    [i \in 1..(2 * Len(bs)) |->
        IF i % 2 = 1 THEN HexDigit(bs[(i + 1) \div 2] \div 16)
        ELSE HexDigit(bs[i \div 2] % 16)]

\* String order of Go (<): byte-wise, a strict prefix first.
Less(s, t) ==
    \E i \in 1..(Len(t)) :
        /\ \A j \in 1..(i - 1) : j <= Len(s) /\ s[j] = t[j]
        /\ \/ i = Len(s) + 1
           \/ i <= Len(s) /\ s[i] < t[i]

\* ----------------------------------------------------------------- codec

\* The sum of the positive numbers w[1], ..., w[n]: the size of the bag that
\* holds i w[i] times.
SumTo(w) == IF DOMAIN w = {} THEN 0 ELSE BagCardinality(w)

\* The internal state of the digest after absorbing bs: every byte weighed by
\* its position, and the length.
Mix(bs) ==
    (Len(bs) * 257 + 7
       + SumTo([i \in 1..Len(bs) |-> (bs[i] + 1) * ((i * i * i + 7 * i + 13) % 65521)]))
    % 65521

\* sha1.Sum: a 20-byte digest of the bytes.  The model keeps the width and
\* the determinism of SHA-1 and replaces its compression function by a
\* small mixing function.
Sum(bs) ==
    Let(Mix(bs), LAMBDA h :
        [i \in 1..DigestLen |->
            IF i = 1 THEN h \div 256
            ELSE IF i = 2 THEN h % 256
            ELSE (h * (i + 1) + i * i) % 256])

\* The Adler-32 trailer of a zlib stream, big endian: a is 1 plus the sum of
\* the bytes, b the sum of the values a takes, both modulo 65521.
Adler32(bs) ==
    LET n == Len(bs)
        a == (1 + SumTo([i \in 1..n |-> bs[i] + 1]) - n) % 65521
        b == (n + SumTo([i \in 1..n |-> (n - i + 1) * (bs[i] + 1)]) - (n * (n + 1)) \div 2) % 65521
    IN  <<b \div 256, b % 256, a \div 256, a % 256>>

\* The two-byte zlib header (CMF, FLG) of the default compression level.
ZlibHeader == <<120, 156>>

\* zlib.NewWriter + Write + Close: header, one final stored deflate block
\* (BFINAL, LEN, NLEN, data), Adler-32 of the data.
Compress(bs) ==
    ZlibHeader
    \o <<1, Len(bs) % 256, Len(bs) \div 256, 255 - (Len(bs) % 256), 255 - (Len(bs) \div 256)>>
    \o bs
    \o Adler32(bs)

\* zlib.NewReader: fails unless the two header bytes are there and valid.
NewReaderOk(z) == Len(z) >= 2 /\ Take(z, 2) = ZlibHeader

\* ioutil.ReadAll of the zlib reader: the bytes inflated before the stream
\* ended or failed, and whether it ended with an error.
ReadAll(z) ==
    LET body == Drop(z, 2)
    IN  IF Len(body) < 5 \/ body[1] # 1
            \/ body[2] + body[4] # 255 \/ body[3] + body[5] # 255
        THEN [data |-> <<>>, err |-> TRUE]
        ELSE LET n == body[2] + 256 * body[3]
                 rest == Drop(body, 5)
             IN  IF Len(rest) < n
                 THEN [data |-> rest, err |-> TRUE]
                 ELSE Let(Take(rest, n), LAMBDA d :
                          [data |-> d, err |-> Drop(rest, n) # Adler32(d)])

\* ------------------------------------------------------------ file system

\* Names of the working tree.
GitName == <<46, 103, 105, 116>>
NameR == <<114>>
NameA == <<97>>
NameAB == <<97, 98>>
NameC == <<99>>

\* Absolute paths are sequences of names; <<>> is the file system root.
RootDir == <<NameR>>
SubDir == <<NameR, NameA>>

\* The directories of the working tree, and the ones a command is run in.
Dirs == {RootDir, SubDir}
Cwds == {RootDir, SubDir}

\* The regular files of the working tree.
FilePaths == {<<NameR, NameAB>>, <<NameR, NameA, NameC>>}

\* File contents: text without a space, and bytes that look like the start of
\* a tree entry (mode, space, name, null byte, one digest byte).
Contents == {<<104, 105>>, <<49, 32, 97, 0, 122>>}

\* The file names hash-object is given, relative to the working directory.
FileArgs == {NameC}

\* The directories commit-tree is run in.
CommitCwds == {RootDir}

\* Readings of the clock (time.Now().Unix()) and of the local zone.
Nows == {5}
Zone == <<43, 48, 48, 48, 48>>

\* Lengths at which a failing os.WriteFile leaves the file.
Keeps == {12}

\* The directories and the commit-tree arguments of the runs with failing
\* writes.
FaultCwds == {RootDir}
FaultFlags == {<<>>}

\* Most commit-tree runs in a behaviour.
MaxCommits == 1

\* Most WriteFile calls of one write-tree run (the failing one is among them).
MaxWrites == 4

\* path.Dir of a clean absolute path: the root is its own parent.
Dir(p) == IF p = <<>> THEN <<>> ELSE SubSeq(p, 1, Len(p) - 1)

VARIABLES
    files,      \* working files: path -> [data, readable]
    gitdirs,    \* directories that hold a .git entry
    objects,    \* object files: <<dir, bucket, entry>> -> bytes
    pc,         \* "idle", or "search" inside write-tree's upward search
    gitDir,     \* write-tree: the directory the search is at
    wtCwd,      \* write-tree: the working directory it was started in
    iter,       \* write-tree: parity of the search loop's iterations
    ncommit,    \* commit-tree runs so far
    out         \* the last finished command: arguments, exit, output, writes

vars == <<files, gitdirs, objects, pc, gitDir, wtCwd, iter, ncommit, out>>

ZeroSha == [i \in 1..DigestLen |-> 0]

RECURSIVE SetToSeq(_)
SetToSeq(S) ==
    IF S = {} THEN <<>>
    ELSE LET e == CHOOSE e \in S : TRUE IN <<e>> \o SetToSeq(S \ {e})

\* os.ReadDir: the names in the directory, sorted by file name.
ReadDir(rootPath, gd) ==
    LET kids == {p[Len(p)] : p \in {q \in DOMAIN files \cup Dirs : Dir(q) = rootPath}}
        all == kids \cup (IF rootPath \in gd THEN {GitName} ELSE {})
    IN  SortSeq(SetToSeq(all), LAMBDA a, b : Less(a, b))

\* os.ReadFile succeeds.
CanRead(filePath) == filePath \in DOMAIN files /\ files[filePath].readable

\* The object file of a digest, relative to the working directory:
\* .git/objects/<sha[:2]>/<sha[2:]>.
ObjPath(cwd, hex) == <<cwd, Take(hex, 2), Drop(hex, 2)>>

\* The mutation of StoreObject that skips the write when the entry exists.
StoreObjectSkip(st, cx, sha, z) ==
    LET p == ObjPath(cx.cwd, Hex(sha))
        existed == p \in DOMAIN st.objs
        fails == (st.nw + 1 = cx.failAt) /\ ~existed
        bytes == IF existed THEN st.objs[p]
                 ELSE IF fails THEN Take(z, Min(cx.keep, Len(z))) ELSE z
    IN  [err |-> fails,
         st |-> [objs |-> (p :> bytes) @@ st.objs,
                 gd |-> st.gd \cup {cx.cwd},
                 nw |-> st.nw + 1,
                 log |-> Append(st.log, [path |-> p, existed |-> existed,
                                         changed |-> existed /\ st.objs[p] # bytes,
                                         ok |-> ~fails])]]

\* os.Stat, os.MkdirAll of the bucket when the entry is absent, os.WriteFile of
\* the entry in every case.  The write numbered cx.failAt of the run fails and
\* leaves the first cx.keep bytes.  The log records every WriteFile call:
\* its path, whether the entry existed, whether its bytes changed, and
\* whether the call succeeded.
StoreObject(st, cx, sha, z) ==
    LET p == ObjPath(cx.cwd, Hex(sha))
        existed == p \in DOMAIN st.objs
        fails == st.nw + 1 = cx.failAt
        bytes == IF fails THEN Take(z, Min(cx.keep, Len(z))) ELSE z
    IN  [err |-> fails,
         st |-> [objs |-> (p :> bytes) @@ st.objs,
                 gd |-> st.gd \cup {cx.cwd},
                 nw |-> st.nw + 1,
                 log |-> Append(st.log, [path |-> p, existed |-> existed,
                                         changed |-> existed /\ st.objs[p] # bytes,
                                         ok |-> ~fails])]]

BlobKind == <<98, 108, 111, 98>>
TreeKind == <<116, 114, 101, 101>>
CommitKind == <<99, 111, 109, 109, 105, 116>>

\* "{kind} {len}\0": fmt.Sprintf("blob %d\x00", len).
Header(kind, n) == kind \o <<SP>> \o Dec(n) \o <<NUL>>

\* The mutation of hash_file that returns the zero digest and no error when
\* the file cannot be read.
hash_file_noerr(filePath, st, cx) ==
    IF ~CanRead(filePath)
    THEN [err |-> FALSE, sha |-> ZeroSha, st |-> st]
    ELSE LET fileContents == files[filePath].data
         IN  Let(Header(BlobKind, Len(fileContents)) \o fileContents, LAMBDA storeContents :
             Let(Sum(storeContents), LAMBDA rawSha :
             Let(StoreObject(st, cx, rawSha, Compress(storeContents)), LAMBDA w :
                 [err |-> w.err, sha |-> IF w.err THEN ZeroSha ELSE rawSha, st |-> w.st])))

hash_file(filePath, st, cx) ==
    IF ~CanRead(filePath)
    THEN [err |-> TRUE, sha |-> ZeroSha, st |-> st]
    ELSE LET fileContents == files[filePath].data
         IN  Let(Header(BlobKind, Len(fileContents)) \o fileContents, LAMBDA storeContents :
             Let(Sum(storeContents), LAMBDA rawSha :
             Let(StoreObject(st, cx, rawSha, Compress(storeContents)), LAMBDA w :
                 [err |-> w.err, sha |-> IF w.err THEN ZeroSha ELSE rawSha, st |-> w.st])))

\* File modes of tree entries: 0o040000 and 0o100644.
ModeDir == 16384
ModeFile == 33188

\* The mutation of SortKey that compares whole entries, mode included.
SortKeyWhole(entry) == entry

\* The part of an entry the sort compares: what follows the first space.
SortKey(entry) == Drop(entry, IndexByte(entry, SP) + 1)

RECURSIVE hash_dir(_, _, _)
RECURSIVE hashChildren(_, _, _, _, _)

\* The loop over the directory's files: skip .git, hash a directory or a
\* file, stop at the first error, else append "<mode> <name>\0<sha>".
hashChildren(rootPath, listing, entries, st, cx) ==
    IF listing = <<>> THEN [err |-> FALSE, entries |-> entries, st |-> st]
    ELSE LET name == Head(listing)
             fullFilePath == Append(rootPath, name)
             isDir == fullFilePath \in Dirs
             mode == IF isDir THEN ModeDir ELSE ModeFile
         IN  IF name = GitName
             THEN hashChildren(rootPath, Tail(listing), entries, st, cx)
             ELSE Let(IF isDir THEN hash_dir(fullFilePath, st, cx)
                      ELSE hash_file(fullFilePath, st, cx), LAMBDA r :
                  IF r.err
                  THEN [err |-> TRUE, entries |-> entries, st |-> r.st]
                  ELSE Let(Append(entries, Oct(mode) \o <<SP>> \o name \o <<NUL>> \o r.sha),
                           LAMBDA appended :
                       Let(Tail(listing), LAMBDA rest :
                           hashChildren(rootPath, rest, appended, r.st, cx))))

hash_dir(rootPath, st, cx) ==
    Let(ReadDir(rootPath, st.gd), LAMBDA listing :
    Let(hashChildren(rootPath, listing, <<>>, st, cx), LAMBDA c :
        IF c.err THEN [err |-> TRUE, sha |-> ZeroSha, st |-> c.st]
        ELSE Let(SortSeq(c.entries,
                         LAMBDA a, b : Let(SortKey(a), LAMBDA ka :
                                       Let(SortKey(b), LAMBDA kb : Less(ka, kb)))),
                 LAMBDA entries :
             Let(Flatten(entries), LAMBDA contents :
             Let(Header(TreeKind, Len(contents)) \o contents, LAMBDA b :
             Let(Sum(b), LAMBDA rawSha :
             Let(StoreObject(c.st, cx, rawSha, Compress(b)), LAMBDA w :
                 [err |-> w.err, sha |-> IF w.err THEN ZeroSha ELSE rawSha,
                  st |-> w.st])))))))

Identity ==
    <<66, 111, 99, 99, 104, 105, 33, 32, 84, 104, 101, 32, 82, 111, 99, 107, 32,
      60, 98, 111, 99, 99, 104, 105, 64, 116, 104, 101, 114, 111, 99, 107, 46,
      99, 111, 109, 62>>
TreeWord == <<116, 114, 101, 101, 32>>
ParentWord == <<112, 97, 114, 101, 110, 116, 32>>
AuthorWord == <<97, 117, 116, 104, 111, 114, 32>>
CommitterWord == <<99, 111, 109, 109, 105, 116, 116, 101, 114, 32>>

\* The commit payload: the bytes.Buffer commit_tree fills.
CommitPayload(sha_tree, sha_parent, message, now) ==
    LET author == AuthorWord \o Identity \o <<SP>> \o Dec(now) \o <<SP>> \o Zone
        committer == CommitterWord \o Identity \o <<SP>> \o Dec(now) \o <<SP>> \o Zone
    IN  TreeWord \o sha_tree \o <<LF>>
        \o (IF sha_parent # <<>> THEN ParentWord \o sha_parent \o <<LF>> ELSE <<>>)
        \o AuthorWord \o author \o <<LF>>
        \o CommitterWord \o committer \o <<LF>>
        \o (IF message # <<>> THEN <<LF>> \o message \o <<LF>> ELSE <<>>)

commit_tree(sha_tree, sha_parent, message, now, st, cx) ==
    Let(CommitPayload(sha_tree, sha_parent, message, now), LAMBDA commit :
    Let(Sum(commit), LAMBDA raw_sha :
    Let(Header(CommitKind, Len(commit)) \o commit, LAMBDA b :
    Let(StoreObject(st, cx, raw_sha, Compress(b)), LAMBDA w :
        [err |-> w.err, sha |-> IF w.err THEN ZeroSha ELSE raw_sha, st |-> w.st]))))

\* ---------------------------------------------------------------- commands

InitMessage ==
    <<73, 110, 105, 116, 105, 97, 108, 105, 122, 101, 100, 32, 103, 105, 116, 32,
      100, 105, 114, 101, 99, 116, 111, 114, 121, 10>>

\* A digest no object of the model has, in hex.
AbsentSha == Hex([i \in 1..DigestLen |-> 255])

\* The digests a command is given: those of the entries under the working
\* directory's .git, and one that has none.
ShaArgs(cwd) == {p[2] \o p[3] : p \in {q \in DOMAIN objects : q[1] = cwd}} \cup {AbsentSha}

\* The tree digests commit-tree is given: the one write-tree has just printed
\* in this directory, and one that has no entry.
TreeArgs(cwd) ==
    (IF out.cmd = "write-tree" /\ out.status = "ok" /\ out.cwd = cwd
     THEN {Take(out.stdout, 2 * DigestLen)} ELSE {}) \cup {AbsentSha}

\* The state the builders thread through their writes.
St0 == [objs |-> objects, gd |-> gitdirs, nw |-> 0, log |-> <<>>]

Result(cmd, cwd, args, now, status, stdout, errs, log) ==
    [cmd |-> cmd, cwd |-> cwd, args |-> args, now |-> now, status |-> status,
     stdout |-> stdout, errs |-> errs, log |-> log]

Idle == pc = "idle"

\* case "init": .git with objects and refs, HEAD, the message.  No command
\* reads refs or HEAD, so of these only .git is kept.
InitCmd(cwd) ==
    /\ Idle
    /\ gitdirs' = gitdirs \cup {cwd}
    /\ out' = Result("init", cwd, <<>>, 0, "ok", InitMessage, <<>>, <<>>)
    /\ UNCHANGED <<files, objects, pc, gitDir, wtCwd, iter, ncommit>>

\* case "cat-file".
CatFile(cwd, blob_sha) ==
    /\ Idle
    /\ LET blobPath == ObjPath(cwd, blob_sha)
       IN  out' =
             IF blobPath \notin DOMAIN objects
             THEN Result("cat-file", cwd, <<blob_sha>>, 0, "exit1", <<>>, <<"File not found">>, <<>>)
             ELSE IF ~NewReaderOk(objects[blobPath])
             THEN Result("cat-file", cwd, <<blob_sha>>, 0, "exit1", <<>>, <<"Error parsing file">>, <<>>)
             ELSE Let(ReadAll(objects[blobPath]), LAMBDA r :
                  LET contents == r.data
                      index == IndexByte(contents, NUL) + 1
                      data == Drop(contents, index)
                  IN  Result("cat-file", cwd, <<blob_sha>>, 0, "ok", data \o <<LF>>,
                             IF r.err THEN <<"Error reading file">> ELSE <<>>, <<>>))
    /\ UNCHANGED <<files, gitdirs, objects, pc, gitDir, wtCwd, iter, ncommit>>

\* case "hash-object".
HashObject(cwd, filename, failAt, keep) ==
    /\ Idle
    /\ LET filePath == Append(cwd, filename)
           readErr == ~CanRead(filePath)
           data == IF readErr THEN <<>> ELSE files[filePath].data
           errs == IF readErr THEN <<"Error unable to read file">> ELSE <<>>
       IN  \E content \in {Header(BlobKind, Len(data)) \o data} :
           \E sha \in {Sum(content)} :
           \E w \in {StoreObject(St0, [cwd |-> cwd, failAt |-> failAt, keep |-> keep],
                                 sha, Compress(content))} :
           /\ objects' = w.st.objs
           /\ gitdirs' = w.st.gd
           /\ out' = IF w.err
                     THEN Result("hash-object", cwd, <<filename>>, 0, "exit1", <<>>,
                                 Append(errs, "Error creating file"), w.st.log)
                     ELSE Result("hash-object", cwd, <<filename>>, 0, "ok",
                                 Hex(sha) \o <<LF>>, errs, w.st.log)
    /\ UNCHANGED <<files, pc, gitDir, wtCwd, iter, ncommit>>

RECURSIVE lsLoop(_, _)
\* The loop of ls-tree over the payload.  A slice expression with a negative
\* bound, or with a bound past the slice, panics.
lsLoop(contents, paths) ==
    IF Len(contents) = 0 THEN [panic |-> FALSE, paths |-> paths]
    ELSE Let(IndexByte(contents, SP), LAMBDA space_index :
         IF space_index < 0 THEN [panic |-> TRUE, paths |-> paths]
         ELSE Let(Drop(contents, space_index + 1), LAMBDA c1 :
              Let(IndexByte(c1, NUL), LAMBDA null_index :
              IF null_index < 0 THEN [panic |-> TRUE, paths |-> paths]
              ELSE Let(Drop(c1, null_index + 1), LAMBDA c2 :
                   IF Len(c2) < DigestLen THEN [panic |-> TRUE, paths |-> paths]
                   ELSE Let(Drop(c2, DigestLen), LAMBDA rest :
                        Let(Append(paths, Take(c1, null_index)), LAMBDA found :
                            lsLoop(rest, found)))))))

\* fmt.Println of every name.
Lines(paths) == Flatten([i \in 1..Len(paths) |-> paths[i] \o <<LF>>])

\* case "ls-tree".
LsTree(cwd, tree_sha) ==
    /\ Idle
    /\ LET treePath == ObjPath(cwd, tree_sha)
       IN  out' =
             IF treePath \notin DOMAIN objects
             THEN Result("ls-tree", cwd, <<tree_sha>>, 0, "exit1", <<>>, <<"Error finding tree">>, <<>>)
             ELSE IF ~NewReaderOk(objects[treePath])
             THEN Result("ls-tree", cwd, <<tree_sha>>, 0, "exit1", <<>>, <<"Error parsing tree">>, <<>>)
             ELSE Let(ReadAll(objects[treePath]), LAMBDA r :
                  IF r.err
                  THEN Result("ls-tree", cwd, <<tree_sha>>, 0, "exit1", <<>>, <<"Error reading file">>, <<>>)
                  ELSE Let(Drop(r.data, IndexByte(r.data, NUL) + 1), LAMBDA contents :
                       Let(lsLoop(contents, <<>>), LAMBDA l :
                       IF l.panic
                       THEN Result("ls-tree", cwd, <<tree_sha>>, 0, "panic", <<>>,
                                   <<"panic: slice bounds out of range">>, <<>>)
                       ELSE Result("ls-tree", cwd, <<tree_sha>>, 0, "ok", Lines(l.paths),
                                   <<>>, <<>>))))
    /\ UNCHANGED <<files, gitdirs, objects, pc, gitDir, wtCwd, iter, ncommit>>

\* case "write-tree": os.Getwd, then the upward search begins.
WriteTreeStart(cwd) ==
    /\ Idle
    /\ pc' = "search"
    /\ gitDir' = cwd
    /\ wtCwd' = cwd
    /\ iter' = 0
    /\ UNCHANGED <<files, gitdirs, objects, ncommit, out>>

\* One iteration of the search loop that does not find .git: one directory up.
WriteTreeUp ==
    /\ pc = "search"
    /\ gitDir \notin gitdirs
    /\ gitDir' = Dir(gitDir)
    /\ iter' = 1 - iter
    /\ UNCHANGED <<files, gitdirs, objects, pc, wtCwd, ncommit, out>>

\* The iteration that finds .git: break, hash_dir(gitDir), the digest printed,
\* and the process ends (its locals are gone).
WriteTreeHash(failAt, keep) ==
    /\ pc = "search"
    /\ gitDir \in gitdirs
    /\ \E r \in {hash_dir(gitDir, St0, [cwd |-> wtCwd, failAt |-> failAt, keep |-> keep])} :
           /\ objects' = r.st.objs
           /\ gitdirs' = r.st.gd
           /\ out' = IF r.err
                     THEN Result("write-tree", wtCwd, <<>>, 0, "exit1", <<>>,
                                 <<"Error hashing tree">>, r.st.log)
                     ELSE Result("write-tree", wtCwd, <<>>, 0, "ok",
                                 Hex(r.sha) \o <<LF>>, <<>>, r.st.log)
    /\ pc' = "idle"
    /\ gitDir' = <<>>
    /\ wtCwd' = <<>>
    /\ iter' = 0
    /\ UNCHANGED <<files, ncommit>>

FlagP == <<45, 112>>
FlagM == <<45, 109>>

\* The argument lists commit-tree is given after the tree digest: none, -p
\* and -m, and the two flags in the other order.
CommitFlags ==
    {<<>>, <<FlagP, AbsentSha, FlagM, <<109>>>>, <<FlagM, <<109>>, FlagP, AbsentSha>>}

\* case "commit-tree": the arguments are read by their number (os.Args holds
\* the program, the command and the tree digest before them), then commit_tree.
CommitTree(cwd, tree_sha, flags, now, failAt, keep) ==
    /\ Idle
    /\ LET n == Len(flags) + 3
           usage == \/ n = 5 /\ flags[1] # FlagP /\ flags[1] # FlagM
                    \/ n = 7 /\ flags[1] # FlagP
           parent_sha == IF n \in {5, 7} /\ flags[1] = FlagP THEN flags[2] ELSE <<>>
           message == IF n = 5 /\ flags[1] = FlagM THEN flags[2]
                      ELSE IF n = 7 /\ flags[1] = FlagP THEN flags[4]
                      ELSE <<>>
           args == <<tree_sha, parent_sha, message>>
       IN  IF usage
           THEN /\ out' = Result("commit-tree", cwd, args, now, "exit1", <<>>, <<"usage">>, <<>>)
                /\ UNCHANGED <<objects, gitdirs, ncommit>>
           ELSE \E r \in {commit_tree(tree_sha, parent_sha, message, now, St0,
                                      [cwd |-> cwd, failAt |-> failAt, keep |-> keep])} :
                /\ ncommit < MaxCommits
                /\ ncommit' = ncommit + 1
                /\ objects' = r.st.objs
                /\ gitdirs' = r.st.gd
                /\ out' = IF r.err
                          THEN Result("commit-tree", cwd, args, now, "exit1", <<>>,
                                      <<"Error committing tree">>, r.st.log)
                          ELSE Result("commit-tree", cwd, args, now, "ok",
                                      Hex(r.sha) \o <<LF>>, <<>>, r.st.log)
    /\ UNCHANGED <<files, pc, gitDir, wtCwd, iter>>

\* The working tree is an input: r/a/c holds "hi"; r/ab holds one of Contents
\* and may be unreadable (then its contents do not matter).
Init ==
    /\ files \in {f \in [FilePaths -> [data : Contents, readable : BOOLEAN]] :
                    /\ f[<<NameR, NameA, NameC>>] = [data |-> <<104, 105>>, readable |-> TRUE]
                    /\ (f[<<NameR, NameAB>>].readable \/ f[<<NameR, NameAB>>].data = <<104, 105>>)}
    /\ gitdirs = {}
    /\ objects = <<>>
    /\ pc = "idle"
    /\ gitDir = <<>>
    /\ wtCwd = <<>>
    /\ iter = 0
    /\ ncommit = 0
    /\ out = Result("none", <<>>, <<>>, 0, "ok", <<>>, <<>>, <<>>)

\* Every write succeeds.
Next ==
    \/ \E cwd \in Cwds : InitCmd(cwd)
    \/ \E cwd \in Cwds : \E sha \in ShaArgs(cwd) : CatFile(cwd, sha)
    \/ \E cwd \in Cwds : \E f \in FileArgs : HashObject(cwd, f, 0, 0)
    \/ \E cwd \in Cwds : \E sha \in ShaArgs(cwd) : LsTree(cwd, sha)
    \/ \E cwd \in Cwds : WriteTreeStart(cwd)
    \/ WriteTreeUp
    \/ WriteTreeHash(0, 0)
    \/ \E cwd \in CommitCwds : \E t \in TreeArgs(cwd) : \E fl \in CommitFlags :
         \E now \in Nows : CommitTree(cwd, t, fl, now, 0, 0)

Spec == Init /\ [][Next]_vars

\* A running write-tree goes on to its next step: the search loop iterates,
\* and hash_dir runs once .git is found.
FairSpec == Spec /\ WF_vars(WriteTreeUp) /\ WF_vars(WriteTreeHash(0, 0))

\* The persisting commands, run in the repository root, when one os.WriteFile
\* of a run may fail and leave a truncated entry.
NextFault ==
    \/ \E cwd \in FaultCwds : InitCmd(cwd)
    \/ \E cwd \in FaultCwds : \E f \in FileArgs : \E n \in 0..1 : \E k \in Keeps :
         HashObject(cwd, f, n, k)
    \/ \E cwd \in FaultCwds : WriteTreeStart(cwd)
    \/ WriteTreeUp
    \/ \E n \in 0..MaxWrites : \E k \in Keeps : WriteTreeHash(n, k)
    \/ \E cwd \in FaultCwds : \E fl \in FaultFlags : \E now \in Nows :
         \E n \in 0..1 : \E k \in Keeps : CommitTree(cwd, AbsentSha, fl, now, n, k)

SpecFault == Init /\ [][NextFault]_vars

\* ------------------------------------------------------------- properties

\* The 40 hex characters an entry is stored under.
KeyOf(p) == p[2] \o p[3]

\* The entry inflates without error.
Intact(z) == NewReaderOk(z) /\ ~ReadAll(z).err

\* The serialized object an entry holds, and the payload after its header.
Serialized(p) == ReadAll(objects[p]).data
PayloadOf(data) == Drop(data, IndexByte(data, NUL) + 1)

\* data is "{kind} {len}\0{payload}" with len the payload's length.
WellFormed(data) ==
    LET i == IndexByte(data, NUL)
    IN  /\ i >= 0
        /\ \E kind \in {BlobKind, TreeKind, CommitKind} :
             Take(data, i) = kind \o <<SP>> \o Dec(Len(data) - i - 1)

IsTree(p) ==
    p \in DOMAIN objects /\ Intact(objects[p]) /\ Take(Serialized(p), 5) = TreeKind \o <<SP>>
IsCommit(p) ==
    p \in DOMAIN objects /\ Intact(objects[p]) /\ Take(Serialized(p), 7) = CommitKind \o <<SP>>

RECURSIVE TreeEntries(_)
\* The entries of a tree payload: mode, name, digest.
TreeEntries(payload) ==
    LET sp == IndexByte(payload, SP)
        rest == Drop(payload, sp + 1)
        nul == IndexByte(rest, NUL)
        after == Drop(rest, nul + 1)
    IN  IF payload = <<>> \/ sp < 0 \/ nul < 0 \/ Len(after) < DigestLen THEN <<>>
        ELSE <<[mode |-> Take(payload, sp), name |-> Take(rest, nul),
                sha |-> Take(after, DigestLen)]>>
             \o TreeEntries(Drop(after, DigestLen))

RECURSIVE WellFormedTree(_)
\* The payload is a sequence of whole entries.
WellFormedTree(payload) ==
    LET sp == IndexByte(payload, SP)
        rest == Drop(payload, sp + 1)
        nul == IndexByte(rest, NUL)
        after == Drop(rest, nul + 1)
    IN  \/ payload = <<>>
        \/ /\ sp >= 0
           /\ nul >= 0
           /\ Len(after) >= DigestLen
           /\ WellFormedTree(Drop(after, DigestLen))

RECURSIVE SplitLines(_)
\* The lines of a text, each without its newline.
SplitLines(s) ==
    LET i == IndexByte(s, LF)
    IN  IF s = <<>> THEN <<>>
        ELSE IF i < 0 THEN <<s>>
        ELSE <<Take(s, i)>> \o SplitLines(Drop(s, i + 1))

\* The digest a command printed.
PrintedSha == Take(out.stdout, 2 * DigestLen)

\* C1: every stored entry inflates to a serialized object "{kind} {len}\0
\* {payload}" whose digest over the full serialized bytes is the digest it is
\* stored under.
ContentAddressed ==
    \A p \in DOMAIN objects :
        /\ Intact(objects[p])
        /\ WellFormed(Serialized(p))
        /\ KeyOf(p) = Hex(Sum(Serialized(p)))

\* C2: cat-file of the digest of the blob of a working file's contents C
\* prints exactly C.
BlobRoundTrip ==
    (out.cmd = "cat-file" /\ out.status = "ok") =>
        \A f \in DOMAIN files :
            (/\ files[f].readable
             /\ out.args[1] = Hex(Sum(Header(BlobKind, Len(files[f].data)) \o files[f].data)))
            => out.stdout = files[f].data

\* The digests a commit payload names: its tree line and its parent line.
CommitRefs(payload) ==
    LET lines == SplitLines(payload)
    IN  {Drop(lines[i], Len(TreeWord)) :
            i \in {j \in 1..Min(1, Len(lines)) : Take(lines[j], Len(TreeWord)) = TreeWord}}
        \cup
        {Drop(lines[i], Len(ParentWord)) :
            i \in {j \in 2..Min(2, Len(lines)) : Take(lines[j], Len(ParentWord)) = ParentWord}}

\* Every digest a stored tree names has an entry in the same store.
TreeRefsStored ==
    \A p \in DOMAIN objects :
        IsTree(p) =>
            LET es == TreeEntries(PayloadOf(Serialized(p)))
            IN  \A i \in 1..Len(es) : ObjPath(p[1], Hex(es[i].sha)) \in DOMAIN objects

\* Every tree the last command wrote was written after its children, by the
\* same run.
TreeWrittenAfterChildren ==
    \A i \in 1..Len(out.log) :
        IsTree(out.log[i].path) =>
            LET p == out.log[i].path
                es == TreeEntries(PayloadOf(Serialized(p)))
            IN  \A k \in 1..Len(es) :
                    \E j \in 1..(i - 1) : out.log[j].path = ObjPath(p[1], Hex(es[k].sha))

\* C3 as stated: no stored tree and no stored commit names a digest that has
\* no entry in the store.
AllRefsStored ==
    /\ TreeRefsStored
    /\ \A p \in DOMAIN objects :
        IsCommit(p) =>
            \A d \in CommitRefs(PayloadOf(Serialized(p))) : ObjPath(p[1], d) \in DOMAIN objects

\* C3 as amended: every tree hash_dir writes is written after the entries of
\* all the digests it names, so no stored tree names a digest without an
\* entry, also after a write-tree run that a read error aborted.
TreeRefIntegrity == TreeRefsStored /\ TreeWrittenAfterChildren

\* A write-tree run that a read error aborted after it had written a tree
\* with an entry.
AbortedRunWroteTree ==
    /\ out.cmd = "write-tree"
    /\ out.status = "exit1"
    /\ \E i \in 1..Len(out.log) :
        /\ IsTree(out.log[i].path)
        /\ TreeEntries(PayloadOf(Serialized(out.log[i].path))) # <<>>

\* C4: the entries of every tree hash_dir writes are in non-decreasing
\* byte-wise order of their names.
TreeOrdered ==
    \A p \in DOMAIN objects :
        IsTree(p) =>
            LET es == TreeEntries(PayloadOf(Serialized(p)))
            IN  \A i, j \in 1..Len(es) : i < j => ~Less(es[j].name, es[i].name)

\* A stored tree of a directory and a file where the directory's name is a
\* strict prefix of the file's.
PrefixNamesTree ==
    \E p \in DOMAIN objects :
        /\ IsTree(p)
        /\ LET es == TreeEntries(PayloadOf(Serialized(p)))
           IN  /\ Len(es) = 2
               /\ es[1].name = NameA /\ es[1].mode = Oct(ModeDir)
               /\ es[2].name = NameAB /\ es[2].mode = Oct(ModeFile)

\* An author or committer line: the word, a name and an email, the
\* timestamp, the zone.
IdentityLine(line, word) ==
    LET tail == <<SP>> \o Dec(out.now) \o <<SP>> \o Zone
    IN  /\ Len(line) > Len(word) + Len(tail)
        /\ Take(line, Len(word)) = word
        /\ Drop(line, Len(line) - Len(tail)) = tail

\* C5: the payload of the commit commit-tree wrote is the tree line, the
\* parent line iff a parent is given, an author line, a committer line, a
\* blank line, and the message with its newline iff the message is not empty.
CommitShape ==
    (out.cmd = "commit-tree" /\ out.status = "ok") =>
        LET payload == PayloadOf(Serialized(ObjPath(out.cwd, PrintedSha)))
            lines == SplitLines(payload)
            T == out.args[1]
            P == out.args[2]
            M == out.args[3]
            np == IF P = <<>> THEN 0 ELSE 1
        IN  /\ payload[Len(payload)] = LF
            /\ Len(lines) = 4 + np + (IF M = <<>> THEN 0 ELSE 1)
            /\ lines[1] = TreeWord \o T
            /\ P # <<>> => lines[2] = ParentWord \o P
            /\ IdentityLine(lines[2 + np], AuthorWord)
            /\ IdentityLine(lines[3 + np], CommitterWord)
            /\ lines[4 + np] = <<>>
            /\ M # <<>> => lines[5 + np] = M

\* C6: a command that persists the same content as the command before it
\* (hash-object of the same file, write-tree from the same directory) prints
\* the same digest and leaves the stored objects as they were.
RepersistIdempotent ==
    [][(/\ out.status = "ok"
        /\ out'.status = "ok"
        /\ out'.cwd = out.cwd
        /\ \/ /\ out.cmd = "write-tree"
              /\ pc = "search" /\ pc' = "idle" /\ wtCwd = out.cwd
           \/ /\ out.cmd = "hash-object"
              /\ out'.cmd = "hash-object"
              /\ out'.args = out.args)
       => (out'.stdout = out.stdout /\ objects' = objects)]_vars

\* C7 as stated: a write to an entry that exists leaves its bytes as they
\* were.
ExistingEntryKept ==
    \A i \in 1..Len(out.log) : out.log[i].existed => ~out.log[i].changed

\* C7 as amended: the entry is written whether or not it exists, so after a
\* write that succeeded the entry holds the complete compressed object, also
\* when a truncated entry was there before.
ExistingEntryRewritten ==
    \A i \in 1..Len(out.log) :
        (/\ out.log[i].ok
         /\ \A j \in (i + 1)..Len(out.log) : out.log[j].path # out.log[i].path)
        => /\ Intact(objects[out.log[i].path])
           /\ objects[out.log[i].path] = Compress(Serialized(out.log[i].path))

\* A truncated entry was written again and is whole.
TruncatedEntryRepaired ==
    \E i \in 1..Len(out.log) :
        /\ out.log[i].existed
        /\ out.log[i].changed
        /\ out.log[i].ok
        /\ Intact(objects[out.log[i].path])

\* C8: hash-object of a file that cannot be read fails: no digest printed,
\* no object written.
ReadErrorFails ==
    (out.cmd = "hash-object" /\ ~CanRead(Append(out.cwd, out.args[1]))) =>
        /\ out.status # "ok"
        /\ out.stdout = <<>>
        /\ out.log = <<>>

\* C9: ls-tree of an object whose payload ends in the middle of an entry ends
\* in a reported failure: no crash, no names.
TruncatedTreeReported ==
    LET p == ObjPath(out.cwd, out.args[1])
    IN  (/\ out.cmd = "ls-tree"
         /\ p \in DOMAIN objects
         /\ Intact(objects[p])
         /\ ~WellFormedTree(PayloadOf(Serialized(p))))
        => (out.status = "exit1" /\ out.stdout = <<>>)

\* C10: write-tree terminates: the upward search for the repository root
\* ends and the command finishes, with a tree digest or with an error.
WriteTreeTerminates == (pc = "search") ~> (pc = "idle")
====
